---- MODULE Spec2Model ----
(***************************************************************************)
(* State-machine model of the GoTime monitoring engine                     *)
(* (src/maps/monitoring.py) together with the travel-time service it polls *)
(* (src/maps/directions.py, src/maps/client.py).                           *)
(*                                                                         *)
(* The engine runs on one asyncio event loop.  A coroutine runs without    *)
(* interruption until it awaits something that is not ready; the only such *)
(* points in the engine are asyncio.sleep in _monitoring_loop and          *)
(* "await self._monitor_task" in shutdown.  Each action below is therefore *)
(* one uninterrupted stretch of one coroutine.  Time is a global clock     *)
(* (seconds) that advances in steps of TimeStep between such stretches.    *)
(*                                                                         *)
(* Optional[...] values are modelled as sequences of length at most one:   *)
(* None is <<>> and a present value v is <<v>>.                            *)
(***************************************************************************)
EXTENDS Integers, Sequences, FiniteSets, TLC

\* ------------------------------------------------------------------ bounds
NumSessions == 2      \* session objects the callers may construct
MaxTime == 120        \* the clock stops advancing here (seconds)
TimeStep == 60        \* granularity of the clock (seconds)
CountCap == 2         \* the observer counter saturates here
MaxCalls == 3         \* start_session, stop_session and shutdown calls the callers make
NumCallers == 2       \* threads that call the GoogleMapsClient
MaxRequests == 4      \* API requests the callers begin
MaxClock == 130       \* seconds into a day up to which the limiter's clock is followed
MaxDays == 2          \* days the limiter's clock may reach

\* --------------------------------------------- configuration (maps/config.py)
\* Settings are read from the environment; the model runs the engine with
\* small configured values instead of the defaults of config.py.
default_timeout_minutes == 1
polling_interval_seconds == 10
MaxConcurrentInputs == {1, 2}

api_requests_per_minute == 2
api_requests_per_day == 3

\* --------------------------------------------- constants of GoogleMapsClient
DayLength == 86400    \* timedelta(days=1), in seconds
WindowSeconds == 60   \* timedelta(seconds=60): the age at which a request leaves the window
WindowBuffer == 61    \* timedelta(seconds=61): the oldest request plus the 1 s buffer
SleepSlice == 10      \* time.sleep(min(wait_time, 10))
DailyBackoff == 60    \* time.sleep(60)

\* ------------------------------------------- constants of _monitoring_loop
SweepSleep == 10      \* asyncio.sleep(10) after a pass
ErrorSleep == 30      \* asyncio.sleep(30) after a pass that raised

\* --------------------------------------------------- inputs of the callers
SessionIds == 1..NumSessions
None == <<>>
Some(v) == <<v>>
\* The sessions the callers construct: target 600 s, the default timeout,
\* and the default poll interval (odd ids) or one of 120 s (even ids)
SessionInput(sid) ==
  [target_duration_seconds |-> 600,
   timeout_minutes |-> None,
   polling_interval_seconds |-> IF sid % 2 = 1 THEN None ELSE Some(120)]
\* The callbacks the callers may install: one that returns, one that raises
Callbacks == {"returns", "raises"}
\* What GoogleMapsClient.get_travel_time does when it is called: it returns a
\* duration, returns None (no route, or a malformed response), or raises.
ClientOutcomes == {<<"value", 550>>, <<"value", 600>>, <<"value", 900>>, <<"none">>, <<"raise">>}

VARIABLES
  settings,               \* get_settings(): the configuration of this run
  now,                    \* datetime.now(), in seconds
  sessions,               \* the MonitoringSession objects constructed so far
  active_sessions,        \* MonitoringEngine.active_sessions: its keys, in insertion order
  notification_callback,  \* MonitoringEngine.notification_callback
  running,                \* MonitoringEngine._running
  monitor_task,           \* the asyncio.Task in MonitoringEngine._monitor_task
  detached_task,          \* a loop task shutdown still awaits after _monitor_task was replaced
  shutdown_pc,            \* where the shutdown coroutine in flight stands
  calls,                  \* calls of start_session, stop_session and shutdown so far
  produced,               \* observer: Results produced per session (saturating)
  polled_at,              \* observer: when get_travel_time was last called for each session
  last,                   \* observer: the operation that made the last step, and what it did
  minute_requests,        \* GoogleMapsClient._minute_requests: timestamps, oldest first
  daily_requests,         \* GoogleMapsClient._daily_requests
  daily_reset_time,       \* GoogleMapsClient._daily_reset_time
  thread_pc,              \* where each calling thread stands inside the client
  thread_wake,            \* when the time.sleep of a sleeping thread ends
  inbox,                  \* coroutines scheduled on the event loop that have not run yet
  recorded,               \* observer: the timestamps of all requests recorded so far
  lim_last                \* observer: the last step of the client, and what it did

\* the state of the monitoring engine, without the clock
engine_vars == <<settings, sessions, active_sessions, notification_callback, running,
                 monitor_task, detached_task, shutdown_pc, calls, produced, polled_at, last>>

\* the state of the GoogleMapsClient and of the threads inside it
limiter_vars == <<minute_requests, daily_requests, daily_reset_time, thread_pc,
                  thread_wake, inbox, recorded, lim_last>>

vars == <<now, engine_vars, limiter_vars>>

\* ------------------------------------------------------------ small helpers
Terminal == {"target_reached", "timed_out", "cancelled", "error"}

Range(seq) == {seq[i] : i \in 1..Len(seq)}

Remove(seq, x) == SelectSeq(seq, LAMBDA y : y # x)

Bump(n, k) == IF n + k > CountCap THEN CountCap ELSE n + k

\* A pop that removes nothing: what C7 would have to notice
PopKeeps(seq, key) == seq

\* dict.pop(key, None) on the insertion-ordered dict
Pop(seq, key) == Remove(seq, key)

RECURSIVE PopAll(_, _)
PopAll(seq, keys) ==
  IF keys = <<>> THEN seq ELSE PopAll(Pop(seq, Head(keys)), Tail(keys))

\* ----------------------------------------------------- DirectionsService
format_duration(seconds) ==
  IF seconds < 60 THEN <<seconds, "s">>
  ELSE LET minutes == seconds \div 60 IN
       IF minutes < 60 THEN <<minutes, "m">>
       ELSE LET hours == minutes \div 60
                remaining_minutes == minutes % 60
            IN IF remaining_minutes = 0 THEN <<hours, "h">>
               ELSE <<hours, "h", remaining_minutes, "m">>

\* get_current_travel_time: every exception of the client becomes None
get_current_travel_time(outcome) ==
  IF outcome[1] = "value" THEN Some(outcome[2]) ELSE None

\* ----------------------------------------------------- MonitoringSession
\* "x or default": None and 0 are falsy
OrDefault(x, default) == IF x = None \/ x = Some(0) THEN default ELSE x[1]

\* MonitoringSession.__init__ at time t
MonitoringSession(args, t) ==
  [ status              |-> "pending",
    created_at          |-> t,
    target_duration     |-> args.target_duration_seconds,
    timeout_minutes     |-> OrDefault(args.timeout_minutes, default_timeout_minutes),
    polling_interval    |-> OrDefault(args.polling_interval_seconds, polling_interval_seconds),
    current_travel_time |-> None,
    last_check          |-> None,
    error_message       |-> None ]

is_active(sess) == sess.status = "active"

\* An expiry that already holds at the deadline itself: what C9 would have
\* to notice
is_expired_at_deadline(sess, t) ==
  IF sess.status # "active" THEN FALSE
  ELSE (t - sess.created_at) >= sess.timeout_minutes * 60

is_expired(sess, t) ==
  IF sess.status # "active" THEN FALSE
  ELSE (t - sess.created_at) > sess.timeout_minutes * 60

start(sess) == [sess EXCEPT !.status = "active"]

MonitoringResult(sid, sess, status, message, t) ==
  [ session_id        |-> sid,
    status            |-> status,
    final_travel_time |-> sess.current_travel_time,
    target_duration   |-> sess.target_duration,
    message           |-> message,
    timestamp         |-> t ]

\* stop returns the pair (session after the call, Result)
stop(sid, sess, status, message, t) ==
  [ sess   |-> [sess EXCEPT !.status = status],
    result |-> MonitoringResult(sid, sess, status, message, t) ]

\* ------------------------------------------------------------- event loop
\* An asyncio.Task running _monitoring_loop.  st is "ready" (created, first
\* step not yet run), "sleeping" (inside asyncio.sleep, until wake), "done"
\* (the coroutine returned) or "cancelled" (it ended by CancelledError).
\* must_cancel: cancel() was called and CancelledError is not delivered yet.
NoTask == [st |-> "none", wake |-> 0, must_cancel |-> FALSE]

NewTask == [st |-> "ready", wake |-> 0, must_cancel |-> FALSE]

Pending(task) == task.st \in {"ready", "sleeping"}

\* Task.done()
Done(task) == task.st \in {"done", "cancelled"}

\* Task.cancel(): a no-op on a finished task
Cancel(task) == IF Pending(task) THEN [task EXCEPT !.must_cancel = TRUE] ELSE task

\* The task can run a step of the loop body now
Runnable(task) ==
  /\ ~task.must_cancel
  /\ \/ task.st = "ready"
     \/ task.st = "sleeping" /\ now >= task.wake

\* ------------------------------------------------- what an operation did
\* sess is the session as it was when the service was called
PollEvent(sid, sess, value) ==
  [kind |-> "poll", session_id |-> sid, status |-> sess.status,
   previous |-> sess.current_travel_time, value |-> value]

\* GoogleMapsClient.get_travel_time was called for the session and returned
\* a value ("value"), returned None ("none") or raised ("raise")
ClientEvent(sid, outcome) == [kind |-> "call", session_id |-> sid, outcome |-> outcome[1]]

CheckEvent(sid) == [kind |-> "check", session_id |-> sid]

ResultEvent(result) == [kind |-> "result", session_id |-> result.session_id, result |-> result]

NotifyEvent(result, raised) ==
  [kind |-> "notify", session_id |-> result.session_id, result |-> result, raised |-> raised]

Op(name, arg, ret, log) == [op |-> name, arg |-> arg, ret |-> ret, log |-> log]

Returned(value) == <<"return", value>>

\* The str start_session returns: the id, tagged so that TLC can compare it
\* with what the other operations return
SessionIdStr(sid) == <<"session_id", sid>>

Raised(exc, message) == <<"raise", exc, message>>

CountKind(log, kind, sid) ==
  Cardinality({i \in 1..Len(log) : log[i].kind = kind /\ log[i].session_id = sid})

\* the observer counters after an operation whose events are log
Counted(counter, log, kind) ==
  [s \in SessionIds |-> Bump(counter[s], CountKind(log, kind, s))]

\* -------------------------------------------------------- GoogleMapsClient
\* The threads that call the client.  The first one is the thread of the
\* asyncio event loop: the engine's poll reaches get_travel_time through
\* DirectionsService without leaving that thread.
Callers == 1..NumCallers

EventLoopThread == 1

\* Idle time between two steps of the callers (seconds)
IdleGaps == {60}

\* Coroutines other tasks and threads schedule on the event loop
Requests == {"start_session", "stop_session", "shutdown"}

\* What a step of the client did: denied is "daily", "minute" or "none",
\* slept the argument of time.sleep (0 when it was not called), window the
\* minute window the step left
LimOp(name, caller, denied, slept, window) ==
  [op |-> name, caller |-> caller, denied |-> denied, slept |-> slept, window |-> window]

\* The rate-limiting fields of the client, as one value
Limiter ==
  [minute_requests |-> minute_requests,
   daily_requests |-> daily_requests,
   daily_reset_time |-> daily_reset_time]

Min(a, b) == IF a < b THEN a ELSE b

\* _check_rate_limits, lines 51-54
DailyReset(lim, t) ==
  IF t >= lim.daily_reset_time
  THEN [lim EXCEPT !.daily_requests = 0, !.daily_reset_time = t + DayLength]
  ELSE lim

\* _check_rate_limits, line 57
DailyLimitReached(lim) == lim.daily_requests >= api_requests_per_day

\* lines 62-64 (and 190-192): drop the requests older than 60 seconds
RECURSIVE TrimOld(_, _)
TrimOld(queue, t) ==
  IF queue # <<>> /\ Head(queue) < t - WindowSeconds
  THEN TrimOld(Tail(queue), t) ELSE queue

\* A minute test that lets one request too many through: what C11 would
\* have to notice
MinuteLimitReachedOffByOne(queue) == Len(queue) > api_requests_per_minute

\* _check_rate_limits, line 67
MinuteLimitReached(queue) == Len(queue) >= api_requests_per_minute

\* What _check_rate_limits hands back: the limiter after the call, the
\* boolean returned, and which limit denied the request
RateCheck(lim, ok, denied) == [lim |-> lim, ok |-> ok, denied |-> denied]

\* _check_rate_limits from line 62 on: lim has passed the daily test
CheckMinute(lim) ==
  IF MinuteLimitReached(lim.minute_requests)
  THEN RateCheck(lim, FALSE, "minute") ELSE RateCheck(lim, TRUE, "none")

\* _check_rate_limits from line 57 on: the daily test returns before the
\* window is trimmed
CheckDaily(lim, t) ==
  IF DailyLimitReached(lim) THEN RateCheck(lim, FALSE, "daily")
  ELSE CheckMinute([lim EXCEPT !.minute_requests = TrimOld(@, t)])

_check_rate_limits(lim, t) == CheckDaily(DailyReset(lim, t), t)

\* _wait_for_rate_limit, lines 84-94: the argument of time.sleep after a
\* denied check, 0 when the loop goes round without sleeping
SleepFor(lim, t) ==
  IF lim.minute_requests # <<>> THEN
    IF Head(lim.minute_requests) + WindowBuffer - t > 0
    THEN Min(Head(lim.minute_requests) + WindowBuffer - t, SleepSlice)
    ELSE 0
  ELSE DailyBackoff

\* The thread can run: it is not inside a time.sleep that has not ended
Awake(c) == thread_pc[c] # "sleeping" \/ now >= thread_wake[c]

\* Requests begun so far
Begun == Len(recorded) + Cardinality({c \in Callers : thread_pc[c] # "idle"})

\* Thread c calls get_travel_time (or geocode): it enters _wait_for_rate_limit
begin_request(c) ==
  /\ thread_pc[c] = "idle"
  /\ Begun < MaxRequests
  /\ thread_pc' = [thread_pc EXCEPT ![c] = "waiting"]
  /\ lim_last' = LimOp("begin_request", c, "none", 0, minute_requests)
  /\ UNCHANGED <<now, engine_vars, minute_requests, daily_requests, daily_reset_time,
                 thread_wake, inbox, recorded>>

\* The check of thread c let the request through: _wait_for_rate_limit returns
Granted(c, chk) ==
  /\ thread_pc' = [thread_pc EXCEPT ![c] = "granted"]
  /\ lim_last' = LimOp("_wait_for_rate_limit", c, "none", 0, chk.lim.minute_requests)
  /\ UNCHANGED thread_wake

\* The check of thread c denied the request: the thread sleeps for d seconds
\* (d = 0: it goes round the loop at once, "spinning").  time.sleep does not give the
\* event loop back: what is scheduled on it stays in the inbox.
Denied(c, chk, d) ==
  /\ thread_pc' = [thread_pc EXCEPT ![c] = IF d > 0 THEN "sleeping" ELSE "spinning"]
  /\ thread_wake' = [thread_wake EXCEPT ![c] = now + d]
  /\ lim_last' = LimOp("_wait_for_rate_limit", c, chk.denied, d, chk.lim.minute_requests)

\* One round of the while loop of _wait_for_rate_limit, given what
\* _check_rate_limits returned
WaitRound(c, chk) ==
  /\ minute_requests' = chk.lim.minute_requests
  /\ daily_requests' = chk.lim.daily_requests
  /\ daily_reset_time' = chk.lim.daily_reset_time
  /\ IF chk.ok THEN Granted(c, chk) ELSE Denied(c, chk, SleepFor(chk.lim, now))

_wait_for_rate_limit(c) ==
  /\ thread_pc[c] \in {"waiting", "sleeping", "spinning"}
  /\ Awake(c)
  /\ WaitRound(c, _check_rate_limits(Limiter, now))
  /\ UNCHANGED <<now, engine_vars, inbox, recorded>>

\* get_travel_time, line 154, after _wait_for_rate_limit has returned
_record_request(c) ==
  /\ thread_pc[c] = "granted"
  /\ minute_requests' = Append(minute_requests, now)
  /\ daily_requests' = daily_requests + 1
  /\ recorded' = Append(recorded, now)
  /\ thread_pc' = [thread_pc EXCEPT ![c] = "idle"]
  /\ lim_last' = LimOp("_record_request", c, "none", 0, minute_requests)
  /\ UNCHANGED <<now, engine_vars, daily_reset_time, thread_wake, inbox>>

\* get_usage_stats, lines 187-192: it trims the window before it reports
get_usage_stats ==
  /\ minute_requests' = TrimOld(minute_requests, now)
  /\ lim_last' = LimOp("get_usage_stats", 0, "none", 0, minute_requests)
  /\ UNCHANGED <<now, engine_vars, daily_requests, daily_reset_time, thread_pc,
                 thread_wake, inbox, recorded>>

\* A coroutine is scheduled on the event loop while the thread of the loop is
\* inside a call of the client
submit(req) ==
  /\ req \notin inbox
  /\ thread_pc[EventLoopThread] # "idle"
  /\ inbox' = inbox \cup {req}
  /\ lim_last' = LimOp("submit", 0, "none", 0, minute_requests)
  /\ UNCHANGED <<now, engine_vars, minute_requests, daily_requests, daily_reset_time,
                 thread_pc, thread_wake, recorded>>

\* The event loop runs a scheduled coroutine: only when its thread is not
\* inside a call of the client
run_scheduled(req) ==
  /\ req \in inbox
  /\ thread_pc[EventLoopThread] = "idle"
  /\ inbox' = inbox \ {req}
  /\ lim_last' = LimOp("run_scheduled", 0, "none", 0, minute_requests)
  /\ UNCHANGED <<now, engine_vars, minute_requests, daily_requests, daily_reset_time,
                 thread_pc, thread_wake, recorded>>

\* The threads inside a time.sleep that has not ended
Sleepers == {c \in Callers : thread_pc[c] = "sleeping" /\ thread_wake[c] > now}

\* The first instant at which a sleeping thread wakes
NextWake == CHOOSE t \in {thread_wake[c] : c \in Sleepers} :
              \A c \in Sleepers : t <= thread_wake[c]

\* No thread is about to take a step of the client
Quiet == \A c \in Callers : thread_pc[c] \in {"idle", "sleeping", "spinning"}

\* The instants the clock may move to: the next wake-up while a thread
\* sleeps, else an idle gap later or the start of the next day
ClockTargets ==
  IF Sleepers # {} THEN {NextWake}
  ELSE {now + d : d \in IdleGaps} \cup {((now \div DayLength) + 1) * DayLength}

\* Time passes for the client
Advance ==
  /\ Quiet
  /\ \E t \in ClockTargets :
       /\ t % DayLength <= MaxClock
       /\ t < MaxDays * DayLength
       /\ now' = t
  /\ lim_last' = LimOp("advance", 0, "none", 0, minute_requests)
  /\ UNCHANGED <<engine_vars, minute_requests, daily_requests, daily_reset_time,
                 thread_pc, thread_wake, inbox, recorded>>

\* ---------------------------------------------------------------- Init
Init ==
  /\ settings \in [max_concurrent_sessions : MaxConcurrentInputs]
  /\ now = 0
  /\ sessions = [sid \in SessionIds |-> MonitoringSession(SessionInput(sid), 0)]
  /\ active_sessions = <<>>
  /\ notification_callback = None
  /\ running = FALSE
  /\ monitor_task = NoTask
  /\ detached_task = NoTask
  /\ shutdown_pc = "idle"
  /\ calls = 0
  /\ produced = [s \in SessionIds |-> 0]
  /\ polled_at = [s \in SessionIds |-> None]
  /\ last = Op("init", None, None, <<>>)
  /\ minute_requests = <<>>
  /\ daily_requests = 0
  /\ daily_reset_time = DayLength
  /\ thread_pc = [c \in Callers |-> "idle"]
  /\ thread_wake = [c \in Callers |-> 0]
  /\ inbox = {}
  /\ recorded = <<>>
  /\ lim_last = LimOp("init", 0, "none", 0, <<>>)

\* ------------------------------------------------------- caller operations
set_notification_callback(callback) ==
  /\ notification_callback' = Some(callback)
  /\ last' = Op("set_notification_callback", None, None, <<>>)
  /\ UNCHANGED <<limiter_vars, polled_at, settings, now, sessions, active_sessions, running,
                 monitor_task, detached_task, shutdown_pc, calls, produced>>

\* -------------------------------------------------------- MonitoringEngine
Tracked(sid) == sid \in Range(active_sessions)

\* A capacity test that admits one session too many: what C4 would have to
\* notice
AtCapacityOffByOne == Len(active_sessions) > settings.max_concurrent_sessions

\* start_session, line 162: the engine is full
AtCapacity == Len(active_sessions) >= settings.max_concurrent_sessions

\* A lazy start that never creates a task: what C18 would have to notice
StartedLoopTaskNever == monitor_task

\* _start_monitoring_loop: the task _monitor_task holds after the call
StartedLoopTask == IF running THEN monitor_task ELSE NewTask

\* The task shutdown awaits is the one it cancelled; once start_session has
\* replaced _monitor_task, only the shutdown coroutine still refers to it.
DetachedAfterStart ==
  IF ~running /\ shutdown_pc = "awaiting" /\ detached_task = NoTask
  THEN monitor_task ELSE detached_task

\* The callers make one more call
Call ==
  /\ calls < MaxCalls
  /\ calls' = calls + 1

\* A duplicate test that never fires: what C5 would have to notice
AlreadyActiveNever(sid) == FALSE

\* start_session, line 158
AlreadyActive(sid) == Tracked(sid)

start_session(sid) ==
  /\ Call
  /\ IF AlreadyActive(sid) THEN
       /\ last' = Op("start_session", Some(sid),
                     Raised("ValueError", "Session already active"), <<>>)
       /\ UNCHANGED <<sessions, active_sessions, running, monitor_task, detached_task>>
     ELSE IF AtCapacity THEN
       /\ last' = Op("start_session", Some(sid),
                     Raised("ValueError", "Maximum concurrent sessions reached"), <<>>)
       /\ UNCHANGED <<sessions, active_sessions, running, monitor_task, detached_task>>
     ELSE
       /\ sessions' = [sessions EXCEPT ![sid] = start(@)]
       /\ active_sessions' = Append(active_sessions, sid)
       /\ monitor_task' = StartedLoopTask
       /\ detached_task' = DetachedAfterStart
       /\ running' = TRUE
       /\ last' = Op("start_session", Some(sid), Returned(SessionIdStr(sid)), <<>>)
  /\ UNCHANGED <<limiter_vars, polled_at, settings, now, notification_callback, shutdown_pc, produced>>

\* What the callback installed does when it is called with result
CallbackRaises(callback, result) == callback = "raises"

\* "if self.notification_callback: self.notification_callback(result)":
\* the call raised
NotifyRaised(result) ==
  notification_callback # None /\ CallbackRaises(notification_callback[1], result)

\* the events of the call
Notify(result) ==
  IF notification_callback = None THEN <<>>
  ELSE <<NotifyEvent(result, NotifyRaised(result))>>

\* stop_session, lines 184-193, for a tracked session: st is what
\* session.stop(CANCELLED, ...) returned
Cancelling(sid, st) ==
  /\ active_sessions' = Pop(active_sessions, sid)
  /\ sessions' = [sessions EXCEPT ![sid] = st.sess]
  /\ produced' = Counted(produced, <<ResultEvent(st.result)>>, "result")
  /\ last' = Op("stop_session", Some(sid),
                IF NotifyRaised(st.result) THEN Raised("Exception", "callback")
                ELSE Returned(Some(st.result)),
                <<ResultEvent(st.result)>> \o Notify(st.result))

\* A lookup that always finds a session: what C8 would have to notice
NotFoundNever(sid) == FALSE

\* stop_session, lines 184-186: pop found nothing
NotFound(sid) == ~Tracked(sid)

stop_session(sid) ==
  /\ Call
  /\ IF NotFound(sid) THEN
       /\ last' = Op("stop_session", Some(sid), Returned(None), <<>>)
       /\ UNCHANGED <<sessions, active_sessions, produced>>
     ELSE
       Cancelling(sid, stop(sid, sessions[sid], "cancelled",
                            <<"Session cancelled by user">>, now))
  /\ UNCHANGED <<limiter_vars, polled_at, settings, now, notification_callback, running, monitor_task,
                 detached_task, shutdown_pc>>

\* A due test that never skips a session: what C22 would have to notice
NotDueNever(sess, t) == FALSE

\* _check_session, lines 250-253: the poll interval has not elapsed
NotDue(sess, t) ==
  /\ sess.last_check # None
  /\ (t - sess.last_check[1]) < sess.polling_interval

\* A comparison that misses the target itself: what C10 would have to notice
TargetReachedStrictly(travel_time, sess) == travel_time < sess.target_duration

\* _check_session, line 275
TargetReached(travel_time, sess) == travel_time <= sess.target_duration

\* What _check_session hands back: the session after the call, the Result
\* returned (None if none) and the events of the call
Checked(sess, result, log) == [sess |-> sess, result |-> result, log |-> log]

\* "return session.stop(...)": st is what stop returned
ReturnStopped(st, log) == Checked(st.sess, Some(st.result), log \o <<ResultEvent(st.result)>>)

\* _check_session, lines 271-283: a travel time was observed
Observed(sid, seen, travel_time, log, t) ==
  IF TargetReached(travel_time, seen) THEN
    ReturnStopped(stop(sid, seen, "target_reached",
                       <<"Target reached! Current travel time:",
                         format_duration(travel_time), "target:",
                         format_duration(seen.target_duration)>>, t),
                  log)
  ELSE Checked(seen, None, log)

\* A poll that stamps last_check also when the service returned None: what
\* C17 would have to notice
PolledStampsNone(sid, sess, travel_time, t) ==
  IF travel_time = None
  THEN Checked([sess EXCEPT !.last_check = Some(t)], None,
               <<PollEvent(sid, sess, travel_time)>>)
  ELSE Observed(sid,
                [sess EXCEPT !.current_travel_time = travel_time, !.last_check = Some(t)],
                travel_time[1], <<PollEvent(sid, sess, travel_time)>>, t)

\* _check_session, lines 263-283: travel_time is what the service returned
Polled(sid, sess, travel_time, t) ==
  IF travel_time = None THEN Checked(sess, None, <<PollEvent(sid, sess, travel_time)>>)
  ELSE Observed(sid,
                [sess EXCEPT !.current_travel_time = travel_time, !.last_check = Some(t)],
                travel_time[1], <<PollEvent(sid, sess, travel_time)>>, t)

\* lines 263-265: the service called the client, which answered outcome; c is
\* what _check_session did with the service's answer
Called(sid, outcome, c) == [c EXCEPT !.log = <<ClientEvent(sid, outcome)>> \o @]

\* _check_session(session) at time t, when the client would answer outcome
_check_session(sid, sess, outcome, t) ==
  IF NotDue(sess, t) THEN Checked(sess, None, <<>>)
  ELSE IF is_expired(sess, t) THEN
    ReturnStopped(stop(sid, sess, "timed_out",
                       <<"Session timed out after", sess.timeout_minutes, "minutes">>, t),
                  <<>>)
  ELSE Called(sid, outcome, Polled(sid, sess, get_current_travel_time(outcome), t))

\* What the body of the for loop of _check_all_sessions did for one session:
\* escaped tells whether an exception left the body
Swept(sess, log, completed, escaped) ==
  [sess |-> sess, log |-> log, completed |-> completed, escaped |-> escaped]

\* The except block, lines 229-234, entered when the callback raised at
\* line 227: st is what session.stop(ERROR, ...) returned
HandleError(sid, st, log) ==
  Swept(st.sess, log \o <<ResultEvent(st.result)>> \o Notify(st.result),
        <<sid, sid>>, NotifyRaised(st.result))

\* The try block after _check_session returned c, lines 224-227
AfterCheck(sid, c, t) ==
  IF c.result = None THEN Swept(c.sess, <<CheckEvent(sid)>> \o c.log, <<>>, FALSE)
  ELSE IF ~NotifyRaised(c.result[1]) THEN
    Swept(c.sess, <<CheckEvent(sid)>> \o c.log \o Notify(c.result[1]), <<sid>>, FALSE)
  ELSE
    HandleError(sid,
                stop(sid, [c.sess EXCEPT !.error_message = Some("callback")],
                     "error", <<"Error:", "callback">>, t),
                <<CheckEvent(sid)>> \o c.log \o Notify(c.result[1]))

CheckOne(sid, sess, outcome, t) ==
  AfterCheck(sid, _check_session(sid, sess, outcome, t), t)

\* The state of _check_all_sessions after one more session: acc carries the
\* session objects, the events and the completed_sessions list so far
Merge(acc, sid, c) ==
  [sessions  |-> [acc.sessions EXCEPT ![sid] = c.sess],
   log       |-> acc.log \o c.log,
   completed |-> acc.completed \o c.completed,
   escaped   |-> c.escaped]

\* The for loop of _check_all_sessions from the i-th key of the dict on
RECURSIVE CheckFrom(_, _, _, _)
CheckFrom(i, acc, outcomes, t) ==
  IF i > Len(active_sessions) \/ acc.escaped THEN acc
  ELSE CheckFrom(i + 1,
                 Merge(acc, active_sessions[i],
                       CheckOne(active_sessions[i], acc.sessions[active_sessions[i]],
                                outcomes[active_sessions[i]], t)),
                 outcomes, t)

\* Lines 236-238 are reached only when no exception left the for loop
AfterSweep(swept) ==
  [sessions |-> swept.sessions,
   log |-> swept.log,
   escaped |-> swept.escaped,
   active_sessions |-> IF swept.escaped THEN active_sessions
                       ELSE PopAll(active_sessions, swept.completed)]

_check_all_sessions(outcomes, t) ==
  AfterSweep(CheckFrom(1, [sessions |-> sessions, log |-> <<>>,
                           completed |-> <<>>, escaped |-> FALSE],
                       outcomes, t))

\* The loop condition of _monitoring_loop, line 206
LoopContinues == running /\ active_sessions # <<>>

\* The sessions get_travel_time was called for in a pass get the time of the pass
CalledAt(times, log, t) ==
  [s \in SessionIds |-> IF CountKind(log, "call", s) > 0 THEN Some(t) ELSE times[s]]

\* The loop body after _check_all_sessions: the pass is applied and the task
\* sleeps, 10 s after a pass that returned and 30 s after one that raised
SweepAndSleep(pass) ==
  /\ sessions' = pass.sessions
  /\ active_sessions' = pass.active_sessions
  /\ produced' = Counted(produced, pass.log, "result")
  /\ polled_at' = CalledAt(polled_at, pass.log, now)
  /\ monitor_task' = [monitor_task EXCEPT
                        !.st = "sleeping",
                        !.wake = now + (IF pass.escaped THEN ErrorSleep ELSE SweepSleep)]
  /\ last' = Op("_check_all_sessions", None,
                IF pass.escaped THEN Raised("Exception", "callback") ELSE Returned(None),
                pass.log)

\* One step of the task in _monitor_task: from its start or from the end of
\* its sleep to its next sleep or its end.
_monitoring_loop(outcomes) ==
  /\ Runnable(monitor_task)
  /\ IF ~LoopContinues THEN
       /\ running' = FALSE
       /\ monitor_task' = [monitor_task EXCEPT !.st = "done"]
       /\ last' = Op("_monitoring_loop", None, Returned(None), <<>>)
       /\ UNCHANGED <<sessions, active_sessions, produced, polled_at>>
     ELSE
       /\ SweepAndSleep(_check_all_sessions(outcomes, now))
       /\ UNCHANGED running
  /\ UNCHANGED <<limiter_vars, settings, now, notification_callback, detached_task, shutdown_pc, calls>>

\* The event loop delivers CancelledError to a cancelled loop task: the
\* coroutine ends there (asyncio.sleep re-raises it, "except Exception" does
\* not catch it, and line 214 is not reached).
Cancelled(task) == [task EXCEPT !.st = "cancelled", !.must_cancel = FALSE]

DeliverCancel ==
  /\ \/ /\ Pending(detached_task) /\ detached_task.must_cancel
        /\ detached_task' = Cancelled(detached_task)
        /\ UNCHANGED monitor_task
     \/ /\ Pending(monitor_task) /\ monitor_task.must_cancel
        /\ monitor_task' = Cancelled(monitor_task)
        /\ UNCHANGED detached_task
  /\ last' = Op("CancelledError", None, None, <<>>)
  /\ UNCHANGED <<limiter_vars, polled_at, settings, now, sessions, active_sessions, notification_callback,
                 running, shutdown_pc, calls, produced>>

\* shutdown, lines 296-300: stop every session still tracked, in dict order
StopOne(acc, st) ==
  [sessions |-> [acc.sessions EXCEPT ![st.result.session_id] = st.sess],
   log |-> acc.log \o <<ResultEvent(st.result)>>]

RECURSIVE StopAll(_, _, _)
StopAll(keys, acc, t) ==
  IF keys = <<>> THEN acc
  ELSE StopAll(Tail(keys),
               StopOne(acc, stop(Head(keys), acc.sessions[Head(keys)], "cancelled",
                                 <<"Engine shutdown">>, t)),
               t)

\* shutdown, lines 296-301: stopped is what the for loop did
ClearAll(stopped) ==
  /\ sessions' = stopped.sessions
  /\ active_sessions' = <<>>
  /\ produced' = Counted(produced, stopped.log, "result")
  /\ shutdown_pc' = "idle"
  /\ last' = Op("shutdown", None, Returned(None), stopped.log)

ShutdownFinish ==
  ClearAll(StopAll(active_sessions, [sessions |-> sessions, log |-> <<>>], now))

\* shutdown() up to "await self._monitor_task"; the await does not suspend
\* when there is no task or the task has finished.
shutdown ==
  /\ Call
  /\ shutdown_pc = "idle"
  /\ running' = FALSE
  /\ IF Pending(monitor_task) THEN
       /\ monitor_task' = Cancel(monitor_task)
       /\ shutdown_pc' = "awaiting"
       /\ last' = Op("shutdown", None, None, <<>>)
       /\ UNCHANGED <<sessions, active_sessions, produced>>
     ELSE
       /\ ShutdownFinish
       /\ UNCHANGED monitor_task
  /\ UNCHANGED <<limiter_vars, polled_at, settings, now, notification_callback, detached_task>>

\* The task shutdown awaits
Awaited == IF detached_task # NoTask THEN detached_task ELSE monitor_task

\* shutdown() from the await on, once the awaited task has ended
shutdown_resume ==
  /\ shutdown_pc = "awaiting"
  /\ Done(Awaited)
  /\ ShutdownFinish
  /\ detached_task' = NoTask
  /\ UNCHANGED <<limiter_vars, polled_at, settings, now, notification_callback, running, monitor_task, calls>>

\* ------------------------------------------------------------------ time
\* The event loop has nothing it can run now
Idle ==
  /\ ~Runnable(monitor_task)
  /\ ~(Pending(monitor_task) /\ monitor_task.must_cancel)
  /\ ~(Pending(detached_task) /\ detached_task.must_cancel)
  /\ shutdown_pc = "idle"

\* Time passes while the event loop is idle: what is ready to run runs
\* before the clock moves by a whole TimeStep.
Tick ==
  /\ Idle
  /\ now + TimeStep <= MaxTime
  /\ now' = now + TimeStep
  /\ last' = Op("tick", None, None, <<>>)
  /\ UNCHANGED <<limiter_vars, polled_at, settings, sessions, active_sessions, notification_callback, running,
                 monitor_task, detached_task, shutdown_pc, calls, produced>>

\* ------------------------------------------------------------------ Spec
Next ==
  \/ \E callback \in Callbacks : set_notification_callback(callback)
  \/ \E sid \in SessionIds : start_session(sid)
  \/ \E sid \in SessionIds : stop_session(sid)
  \/ \E outcomes \in [Range(active_sessions) -> ClientOutcomes] : _monitoring_loop(outcomes)
  \/ DeliverCancel
  \/ shutdown
  \/ shutdown_resume
  \/ Tick

Spec == Init /\ [][Next]_vars

\* ------------------------------------------------- the engine, scheduled
\* Beyond MaxTime the clock is kept by moving every stored time back by one
\* TimeStep instead of moving now forward.  The code only looks at
\* differences of times (now - created_at, now - last_check, wake - now), and
\* a time that would fall before 0 is kept at 0: it is then MaxTime old,
\* which is past the timeout and not less than any poll interval.
ShiftTime(t) == IF t > TimeStep THEN t - TimeStep ELSE 0

ShiftOptional(time) == IF time = None THEN None ELSE Some(ShiftTime(time[1]))

ShiftSession(sess) ==
  [sess EXCEPT !.created_at = ShiftTime(@), !.last_check = ShiftOptional(@)]

\* Time passes by one TimeStep while the event loop is idle, once now has
\* reached the end of the clock's range
LateTick ==
  /\ Idle
  /\ now + TimeStep > MaxTime
  /\ sessions' = [sid \in SessionIds |-> ShiftSession(sessions[sid])]
  /\ monitor_task' = [monitor_task EXCEPT !.wake = ShiftTime(@)]
  /\ detached_task' = [detached_task EXCEPT !.wake = ShiftTime(@)]
  /\ polled_at' = [sid \in SessionIds |-> ShiftOptional(polled_at[sid])]
  /\ last' = Op("tick", None, None, <<>>)
  /\ UNCHANGED <<limiter_vars, settings, now, active_sessions, notification_callback,
                 running, shutdown_pc, calls, produced>>

FairNext ==
  \/ Next
  \/ LateTick

\* The operations of the loop task, as the observer names them
LoopOps == {"_monitoring_loop", "_check_all_sessions"}

\* Weak fairness of the loop task, written out: the task is not runnable
\* again and again, or it takes a step again and again.  (A step of
\* _monitoring_loop is possible exactly when the task is runnable, and only
\* its steps leave one of LoopOps in the observer.)
LoopFairness ==
  \/ []<>(~Runnable(monitor_task))
  \/ []<><<last'.op \in LoopOps>>_vars

\* The engine under the scheduling of asyncio: the event loop runs every task
\* that is ready (the loop task, a cancellation to deliver, the shutdown
\* coroutine whose await has ended), and time passes when nothing is ready.
FairSpec ==
  /\ Init
  /\ [][FairNext]_vars
  /\ LoopFairness
  /\ WF_vars(DeliverCancel)
  /\ WF_vars(shutdown_resume)
  /\ WF_vars(Tick)
  /\ WF_vars(LateTick)

\* One thread uses the client, one request after the other
SequentialNext ==
  \/ begin_request(EventLoopThread)
  \/ _wait_for_rate_limit(EventLoopThread)
  \/ _record_request(EventLoopThread)
  \/ get_usage_stats
  \/ Advance

SequentialSpec == Init /\ [][SequentialNext]_vars

\* The thread of the event loop uses the client while coroutines are
\* scheduled on that loop
EventLoopNext ==
  \/ begin_request(EventLoopThread)
  \/ _wait_for_rate_limit(EventLoopThread)
  \/ _record_request(EventLoopThread)
  \/ \E req \in Requests : submit(req)
  \/ \E req \in Requests : run_scheduled(req)
  \/ Advance

EventLoopSpec == Init /\ [][EventLoopNext]_vars

\* Several threads use the one client
ConcurrentNext ==
  \/ \E c \in Callers : begin_request(c)
  \/ \E c \in Callers : _wait_for_rate_limit(c)
  \/ \E c \in Callers : _record_request(c)
  \/ get_usage_stats
  \/ Advance

ConcurrentSpec == Init /\ [][ConcurrentNext]_vars

\* ============================================================ properties
\* The events of the last operation that concern session sid
EventsOf(log, kind, sid) ==
  SelectSeq(log, LAMBDA e : e.kind = kind /\ e.session_id = sid)

\* The Results among the events of log, in order
ResultsOf(log, sid) == EventsOf(log, "result", sid)

IsSweep(op) == op.op = "_check_all_sessions"

CapacityError == Raised("ValueError", "Maximum concurrent sessions reached")

DuplicateError == Raised("ValueError", "Session already active")

\* C1: at most one Result is ever produced for a session id (stop runs at
\* most once per session, the callback never gets two Results with one id),
\* whatever the interleaving of register, cancel, sweep passes and shutdown.
C1_AtMostOneResultPerSession == \A sid \in SessionIds : produced[sid] <= 1

\* C2: with a callback set, every Result an operation produces (a terminal
\* transition in a sweep pass, in stop_session or in shutdown) is delivered
\* to the callback exactly once.
C2_EveryResultNotifiedOnce ==
  notification_callback # None =>
    \A i \in 1..Len(last.log) :
      last.log[i].kind = "result" =>
        Cardinality({j \in 1..Len(last.log) :
                       /\ last.log[j].kind = "notify"
                       /\ last.log[j].session_id = last.log[i].session_id
                       /\ last.log[j].result = last.log[i].result}) = 1

\* C3: when shutdown() has returned, the sessions it found active are
\* Cancelled, the active set is empty and no sweep loop is running, also when
\* a session was registered while shutdown awaited the sweep task.
C3_ShutdownStopsEverything ==
  (last.op = "shutdown" /\ last.ret = Returned(None)) =>
    /\ active_sessions = <<>>
    /\ \A i \in 1..Len(last.log) : sessions[last.log[i].session_id].status = "cancelled"
    /\ ~running
    /\ ~Pending(monitor_task)

\* C4: the active set never holds more than max_concurrent_sessions sessions,
\* and a register call of a session that is not tracked, made when the active
\* set is full, fails with the capacity error and leaves the active set, every
\* session's status (the rejected one stays Pending) and the sweep unchanged.
C4_CapacityBound ==
  [][ /\ Len(active_sessions') <= settings.max_concurrent_sessions
      /\ ( /\ last'.op = "start_session"
           /\ Len(active_sessions) >= settings.max_concurrent_sessions
           /\ ~Tracked(last'.arg[1]) )
         => /\ last'.ret = CapacityError
            /\ UNCHANGED <<active_sessions, sessions, running, monitor_task, detached_task>>
    ]_vars

C4_Witness ==
  /\ last.op = "start_session"
  /\ last.ret = CapacityError
  /\ sessions[last.arg[1]].status = "pending"
  /\ Len(active_sessions) = settings.max_concurrent_sessions

\* C5: register of a session whose id is tracked fails with the duplicate
\* error and changes nothing: the sessions, the active set and the sweep are
\* as before, no Result is produced and the callback is not invoked.
C5_DuplicateRejected ==
  [][ (last'.op = "start_session" /\ Tracked(last'.arg[1]))
      => /\ last'.ret = DuplicateError
         /\ last'.log = <<>>
         /\ UNCHANGED <<sessions, active_sessions, running, monitor_task, detached_task,
                        produced, notification_callback>>
    ]_vars

C5_Witness ==
  /\ last.op = "start_session"
  /\ last.ret = DuplicateError
  /\ Tracked(last.arg[1])

\* C6: after a successful register the session is Active and tracked and a
\* sweep loop is running, and in every reachable state at most one sweep loop
\* task is alive (not done).
C6_RegisterEnsuresOneLoop ==
  /\ (last.op = "start_session" /\ last.ret = Returned(SessionIdStr(last.arg[1])))
     => /\ sessions[last.arg[1]].status = "active"
        /\ Tracked(last.arg[1])
        /\ running
        /\ Pending(monitor_task) /\ ~monitor_task.must_cancel
  /\ ~(Pending(monitor_task) /\ Pending(detached_task))

\* The Result events of log with the given status that concern session sid
ResultsWith(log, sid, status) ==
  SelectSeq(log, LAMBDA e : e.kind = "result" /\ e.session_id = sid
                            /\ e.result.status = status)

C8_CancelUnknown ==
  [][ (last'.op = "stop_session" /\ ~Tracked(last'.arg[1])) =>
        /\ last'.ret = Returned(None)
        /\ last'.log = <<>>
        /\ UNCHANGED <<sessions, active_sessions, produced, running, monitor_task,
                       notification_callback>>
    ]_vars

C8_Witness ==
  /\ last.op = "stop_session"
  /\ last.ret = Returned(None)
  /\ sessions[last.arg[1]].status \in Terminal
  /\ notification_callback # None
  /\ active_sessions # <<>>

\* The poll interval of sess has elapsed at time t, or sess was never polled
\* with success
Due(sess, t) ==
  sess.last_check = None \/ (t - sess.last_check[1]) >= sess.polling_interval

\* Seconds since sess was created
Elapsed(sess, t) == t - sess.created_at

\* Session sid went through _check_session in the pass that logged log
CheckedIn(log, sid) == CountKind(log, "check", sid) > 0

\* C9 as stated: every pass that checks an Active session at or after
\* timeout_minutes from its creation makes it TimedOut (so the first such pass
\* does), and no earlier pass does.
C9_TimedOutAtFirstPassFromDeadline ==
  [][ IsSweep(last') =>
        \A sid \in SessionIds :
          (CheckedIn(last'.log, sid) /\ sessions[sid].status = "active") =>
            (ResultsWith(last'.log, sid, "timed_out") # <<>>
               <=> Elapsed(sessions[sid], now) >= sessions[sid].timeout_minutes * 60)
    ]_vars

\* C9, amended: a pass makes a session it checks TimedOut exactly when the
\* session is Active, its poll interval has elapsed since its last successful
\* observation (or it has none), and strictly more than timeout_minutes have
\* passed since its creation; the pass then does not poll for it and produces
\* one TimedOut Result.
C9_TimedOutWhenDueAndPastDeadline ==
  [][ IsSweep(last') =>
        \A sid \in SessionIds :
          CheckedIn(last'.log, sid) =>
            /\ ResultsWith(last'.log, sid, "timed_out") # <<>>
                 <=> /\ sessions[sid].status = "active"
                     /\ Due(sessions[sid], now)
                     /\ Elapsed(sessions[sid], now) > sessions[sid].timeout_minutes * 60
            /\ ResultsWith(last'.log, sid, "timed_out") # <<>>
                 => /\ Len(ResultsWith(last'.log, sid, "timed_out")) = 1
                    /\ CountKind(last'.log, "poll", sid) = 0
    ]_vars

C9_Witness ==
  /\ IsSweep(last)
  /\ \E sid \in SessionIds :
       /\ ResultsWith(last.log, sid, "timed_out") # <<>>
       /\ sessions[sid].current_travel_time = Some(900)
       /\ Elapsed(sessions[sid], now) > sessions[sid].timeout_minutes * 60

\* C10: when a pass polls for an Active session and observes v, then if
\* v <= target the pass produces one TargetReached Result for it carrying v
\* (and the session is TargetReached after the pass, unless the callback
\* raised on that Result), and if v > target the pass produces no Result for
\* it and leaves it Active with last observed travel time v.
C10_PollDecides ==
  IsSweep(last) =>
    \A i \in 1..Len(last.log) :
      (last.log[i].kind = "poll" /\ last.log[i].status = "active"
         /\ last.log[i].value # None) =>
        LET sid == last.log[i].session_id
            v == last.log[i].value
            reached == ResultsWith(last.log, sid, "target_reached")
        IN IF v[1] <= sessions[sid].target_duration
           THEN /\ Len(reached) = 1
                /\ reached[1].result.final_travel_time = v
                /\ ResultsOf(last.log, sid)[1] = reached[1]
                /\ sessions[sid].current_travel_time = v
                /\ ~NotifyRaised(reached[1].result) => sessions[sid].status = "target_reached"
           ELSE /\ ResultsOf(last.log, sid) = <<>>
                /\ sessions[sid].status = "active"
                /\ sessions[sid].current_travel_time = v

\* 900 s was observed before, 550 s now: one TargetReached Result carrying 550
C10_Witness ==
  /\ IsSweep(last)
  /\ \E i \in 1..Len(last.log) :
       /\ last.log[i].kind = "poll"
       /\ last.log[i].status = "active"
       /\ last.log[i].previous = Some(900)
       /\ last.log[i].value = Some(550)
       /\ Len(ResultsWith(last.log, last.log[i].session_id, "target_reached")) = 1
       /\ sessions[last.log[i].session_id].status = "target_reached"

\* The requests among the first n recorded whose timestamp lies in [from, to]
RecordedBetween(n, from, to) ==
  {j \in 1..n : recorded[j] >= from /\ recorded[j] <= to}

\* C11: with one caller issuing its requests in sequence, a request is
\* recorded only when fewer than api_requests_per_minute recorded requests lie
\* in the trailing 60 seconds; so the (N+1)th request after any request is
\* recorded at least 60 seconds after it, and no window of less than 60
\* seconds holds more than N recorded requests.
C11_MinuteWindowRespected ==
  /\ lim_last.op = "_record_request" =>
       Cardinality(RecordedBetween(Len(recorded) - 1, now - WindowSeconds, now))
         < api_requests_per_minute
  /\ \A i \in 1..Len(recorded) :
       /\ i + api_requests_per_minute <= Len(recorded) =>
            recorded[i + api_requests_per_minute] >= recorded[i] + WindowSeconds
       /\ Cardinality(RecordedBetween(Len(recorded), recorded[i],
                                      recorded[i] + WindowSeconds - 1))
            <= api_requests_per_minute

\* A burst of N+1 requests: N at once, the next one 61 seconds later
C11_Witness ==
  /\ lim_last.op = "_record_request"
  /\ Len(recorded) = api_requests_per_minute + 1
  /\ recorded[api_requests_per_minute] = recorded[1]
  /\ recorded[api_requests_per_minute + 1] = recorded[1] + WindowBuffer

\* C12: with several callers going through the client at once, the check and
\* the recording of a request are one atomic step: daily_requests never
\* exceeds api_requests_per_day and the requests recorded in the trailing 60
\* seconds never exceed api_requests_per_minute.
C12_LimitsNeverExceeded ==
  /\ daily_requests <= api_requests_per_day
  /\ Cardinality(RecordedBetween(Len(recorded), now - WindowSeconds, now))
       <= api_requests_per_minute

\* C13: a session's status only moves Pending -> Active -> one terminal
\* status: no step of the engine changes a status that is terminal.
C13_TerminalStatusIsFinal ==
  [][ \A sid \in SessionIds :
        sessions[sid].status \in Terminal
          => sessions'[sid].status = sessions[sid].status ]_vars

\* C14: the engine calls the travel-time service only for sessions whose
\* status is Active: no pass polls for a session that is terminal.
C14_OnlyActiveSessionsPolled ==
  \A i \in 1..Len(last.log) :
    last.log[i].kind = "poll" => last.log[i].status = "active"

\* C15: when the client raises during the poll of an Active session, the
\* session ends that pass as Error, with the error detail stored on it and an
\* Error Result produced (and delivered to the callback, if one is set).
C15_SourceFailureTerminatesAsError ==
  IsSweep(last) =>
    \A i \in 1..Len(last.log) :
      (last.log[i].kind = "call" /\ last.log[i].outcome = "raise") =>
        /\ sessions[last.log[i].session_id].status = "error"
        /\ sessions[last.log[i].session_id].error_message # None
        /\ ResultsWith(last.log, last.log[i].session_id, "error") # <<>>
        /\ notification_callback # None =>
             CountKind(last.log, "notify", last.log[i].session_id) > 0

\* C16: a failure while checking or notifying one session never aborts the
\* pass: the pass returns, every session of the active set is checked in it,
\* and every session that got a Result in it is evicted when it ends.
C16_FailureDoesNotAbortPass ==
  [][ IsSweep(last') =>
        /\ last'.ret = Returned(None)
        /\ \A sid \in Range(active_sessions) : CheckedIn(last'.log, sid)
        /\ \A sid \in SessionIds :
             ResultsOf(last'.log, sid) # <<>> => sid \notin Range(active_sessions')
    ]_vars

\* C17: a poll of an Active session that returns None changes nothing: the
\* session (status, last observed travel time, last_check) is as before, the
\* pass produces no Result for it, does not call the callback for it and
\* leaves it in the active set.
C17_NoRouteChangesNothing ==
  [][ IsSweep(last') =>
        \A i \in 1..Len(last'.log) :
          (last'.log[i].kind = "poll" /\ last'.log[i].status = "active"
             /\ last'.log[i].value = None) =>
            /\ sessions'[last'.log[i].session_id] = sessions[last'.log[i].session_id]
            /\ sessions'[last'.log[i].session_id].status = "active"
            /\ ResultsOf(last'.log, last'.log[i].session_id) = <<>>
            /\ CountKind(last'.log, "notify", last'.log[i].session_id) = 0
            /\ last'.log[i].session_id \in Range(active_sessions')
    ]_vars

\* a session that had observed 900 s at an earlier time is polled, gets None
C17_Witness ==
  /\ IsSweep(last)
  /\ notification_callback # None
  /\ \E i \in 1..Len(last.log) :
       /\ last.log[i].kind = "poll"
       /\ last.log[i].status = "active"
       /\ last.log[i].value = None
       /\ last.log[i].previous = Some(900)
       /\ sessions[last.log[i].session_id].last_check # Some(now)
       /\ Tracked(last.log[i].session_id)

\* Outside shutdown, a non-empty active set has a live sweep task and the
\* running flag set
SweepAlive ==
  (shutdown_pc = "idle" /\ active_sessions # <<>>) =>
    /\ running
    /\ Pending(monitor_task)
    /\ ~monitor_task.must_cancel

\* C18: the sweep loop returns only when it finds the running flag cleared or
\* the active set empty, a register after that starts a new loop task, and in
\* every state outside shutdown a non-empty active set has a live sweep task
\* with the running flag set.
C18_NoSessionWithoutSweep ==
  [][ /\ (monitor_task'.st = "done" /\ monitor_task.st # "done")
           => (~running \/ active_sessions = <<>>)
      /\ (last'.op = "start_session" /\ last'.ret[1] = "return" /\ ~running)
           => monitor_task' = NewTask
      /\ SweepAlive'
    ]_vars

\* A pass of an earlier loop task terminated a session, and the register just
\* made installed a task that has not run yet: the earlier loop had stopped
C18_Witness ==
  /\ last.op = "start_session"
  /\ last.ret[1] = "return"
  /\ monitor_task = NewTask
  /\ shutdown_pc = "idle"
  /\ \E sid \in SessionIds : sessions[sid].status \in {"target_reached", "timed_out"}

\* C19: a poll waiting inside the rate limiter does not block unrelated work:
\* a cancel, register or shutdown request issued during the wait is processed
\* (a shutdown makes the wait end) within one sleep slice, so the waiting flow
\* never starts another slice with a request still pending.
C19_WaitDoesNotBlockRequests ==
  [][ ( /\ thread_pc[EventLoopThread] \in {"sleeping", "spinning"}
        /\ inbox # {}
        /\ lim_last'.op = "_wait_for_rate_limit"
        /\ lim_last'.caller = EventLoopThread
        /\ lim_last' # lim_last \/ thread_wake' # thread_wake )
      => thread_pc'[EventLoopThread] \notin {"sleeping", "spinning"}
    ]_vars

\* C20: a request denied because daily_requests has reached the daily limit
\* makes the limiter sleep the fixed backoff of 60 s before the next check,
\* whatever the minute window holds.
C20_DailyDenialSleepsBackoff ==
  (lim_last.op = "_wait_for_rate_limit" /\ lim_last.denied = "daily")
    => lim_last.slept = DailyBackoff

\* C21: get_usage_stats only inspects the limiter: the minute-window queue,
\* the daily count and the daily reset instant are the same after the call
\* as before it.
C21_UsageStatsLeavesStateAlone ==
  [][ lim_last'.op = "get_usage_stats" =>
        /\ minute_requests' = minute_requests
        /\ daily_requests' = daily_requests
        /\ daily_reset_time' = daily_reset_time
    ]_vars

\* The pass that made this step called get_travel_time for session sid
CalledIn(op, sid) == IsSweep(op) /\ CountKind(op.log, "call", sid) > 0

\* C22 as stated: between two consecutive calls of get_travel_time for a
\* session at least the session's poll interval elapses, whatever the
\* earlier call returned.
C22_IntervalBetweenAnyTwoCalls ==
  [][ \A sid \in SessionIds :
        (CalledIn(last', sid) /\ polled_at[sid] # None) =>
          now - polled_at[sid][1] >= sessions[sid].polling_interval
    ]_vars

\* C22: when the previous call of get_travel_time for a session returned a
\* travel time (it is the call that set last_check), at least the session's
\* poll interval elapses before the next call for it; after a call that
\* returned no travel time the session is due again at the next pass.
C22_IntervalAfterObservation ==
  [][ \A sid \in SessionIds :
        (CalledIn(last', sid) /\ polled_at[sid] # None
           /\ polled_at[sid] = sessions[sid].last_check) =>
          now - polled_at[sid][1] >= sessions[sid].polling_interval
    ]_vars

\* a session that observed a travel time in an earlier pass is called again
C22_Witness ==
  /\ IsSweep(last)
  /\ \E i \in 1..Len(last.log) :
       /\ last.log[i].kind = "poll"
       /\ last.log[i].status = "active"
       /\ last.log[i].previous # None
       /\ polled_at[last.log[i].session_id] = Some(now)
       /\ now >= sessions[last.log[i].session_id].polling_interval

\* C23: whenever control is back in the event loop (after a start_session,
\* stop_session or shutdown step and after every pass, also one that ended
\* by an exception), every session in active_sessions has status Active.
C23_TrackedSessionsAreActive ==
  \A sid \in Range(active_sessions) : sessions[sid].status = "active"

\* C24: every registered session eventually has a terminal status and is out
\* of the active set, when time advances and the loop task is scheduled.
C24_EverySessionTerminates ==
  \A sid \in SessionIds :
    Tracked(sid) ~> (~Tracked(sid) /\ sessions[sid].status \in Terminal)

====
